---------------------------- MODULE Spec2Model ----------------------------
(***************************************************************************)
(* Teams -> Node.js webhook: HMAC signature verification.                  *)
(*                                                                         *)
(* Byte buffers are sequences of integers 0..255, JavaScript strings are   *)
(* sequences of UTF-16 code units.  The verification engine of server.js   *)
(* (generateVariants / verifyAcrossVariants), the production handler with  *)
(* its canonical-Activity fallback and the start-up code of the server     *)
(* files are modelled as one state machine.                                *)
(***************************************************************************)
EXTENDS Integers, Sequences, FiniteSets, TLC

(***************************************************************************)
(* Generic sequence helpers.                                               *)
(***************************************************************************)
Slice(s, a, b) == IF a > b THEN << >> ELSE SubSeq(s, a, b)

Drop(s, n) == Slice(s, n + 1, Len(s))

Range(s) == { s[i] : i \in 1..Len(s) }

\* s has t as a substring starting at position i
HasAt(s, t, i) == /\ i >= 1
                  /\ i + Len(t) - 1 <= Len(s)
                  /\ \A j \in 1..Len(t) : s[i + j - 1] = t[j]

RECURSIVE SeqsUpTo(_, _)
SeqsUpTo(S, n) ==
  IF n = 0 THEN { << >> }
  ELSE LET shorter == SeqsUpTo(S, n - 1)
       IN  shorter \cup { Append(s, x) : s \in { t \in shorter : Len(t) = n - 1 }, x \in S }

\* parts[lo] \o ... \o parts[hi], for a function parts of sequences
RECURSIVE JoinParts(_, _, _)
JoinParts(parts, lo, hi) ==
  IF lo > hi THEN << >>
  ELSE IF lo = hi THEN parts[lo]
  ELSE JoinParts(parts, lo, (lo + hi) \div 2) \o JoinParts(parts, ((lo + hi) \div 2) + 1, hi)

Min(S) == CHOOSE x \in S : \A y \in S : x <= y

(***************************************************************************)
(* Bit arithmetic on bytes.                                                *)
(***************************************************************************)
RECURSIVE Pow2(_)
Pow2(n) == IF n = 0 THEN 1 ELSE 2 * Pow2(n - 1)

BitOf(x, k) == (x \div Pow2(k)) % 2

\* x with bit k (0 = least significant) inverted
FlipBit(x, k) == IF BitOf(x, k) = 1 THEN x - Pow2(k) ELSE x + Pow2(k)

FlipAt(s, i, k) == [s EXCEPT ![i] = FlipBit(s[i], k)]

(***************************************************************************)
(* Buffer.toString("utf8"): WHATWG UTF-8 decoding into UTF-16 code units;  *)
(* every maximal ill-formed subpart becomes U+FFFD.                        *)
(***************************************************************************)
IsCont(b) == b >= 128 /\ b <= 191

\* number of continuation bytes a lead byte announces (0: not a lead)
Utf8Need(b) == IF b >= 194 /\ b <= 223 THEN 1
               ELSE IF b >= 224 /\ b <= 239 THEN 2
               ELSE IF b >= 240 /\ b <= 244 THEN 3
               ELSE 0

\* the range allowed for the byte that follows lead byte b
Utf8SecondOk(b, c) == IF b = 224 THEN c >= 160 /\ c <= 191
                      ELSE IF b = 237 THEN c >= 128 /\ c <= 159
                      ELSE IF b = 240 THEN c >= 144 /\ c <= 191
                      ELSE IF b = 244 THEN c >= 128 /\ c <= 143
                      ELSE IsCont(c)

\* code point -> UTF-16 code units
Utf16Units(cp) == IF cp < 65536 THEN << cp >>
                  ELSE << 55296 + ((cp - 65536) \div 1024), 56320 + ((cp - 65536) % 1024) >>

\* the decoder at a byte it starts a sequence with: the code units it emits
\* and the byte it goes on with
Utf8DecodeFrom(b, i) ==
  LET c == b[i]
      need == Utf8Need(c)
  IN  IF c < 128 THEN [units |-> << c >>, next |-> i + 1]
      ELSE IF need = 0 THEN [units |-> << 65533 >>, next |-> i + 1]
      ELSE IF i + 1 > Len(b) \/ ~Utf8SecondOk(c, b[i + 1])
           THEN [units |-> << 65533 >>, next |-> i + 1]
      ELSE IF need = 1
           THEN [units |-> << (c - 192) * 64 + (b[i + 1] - 128) >>, next |-> i + 2]
      ELSE IF i + 2 > Len(b) \/ ~IsCont(b[i + 2])
           THEN [units |-> << 65533 >>, next |-> i + 2]
      ELSE IF need = 2
           THEN [units |-> << (c - 224) * 4096 + (b[i + 1] - 128) * 64 + (b[i + 2] - 128) >>,
                 next |-> i + 3]
      ELSE IF i + 3 > Len(b) \/ ~IsCont(b[i + 3])
           THEN [units |-> << 65533 >>, next |-> i + 3]
      ELSE [units |-> Utf16Units((c - 240) * 262144 + (b[i + 1] - 128) * 4096
                                 + (b[i + 2] - 128) * 64 + (b[i + 3] - 128)),
            next |-> i + 4]

\* the decoder starts a sequence at byte i: no sequence before it reaches it.
\* A byte that a sequence takes in is a continuation byte, which starts a
\* sequence of one byte only, so the three bytes before i decide.
Utf8Starts(b, i) ==
  \A j \in (i - 3)..(i - 1) : j >= 1 => Utf8DecodeFrom(b, j).next <= i

toStringUtf8(buf) ==
  JoinParts([i \in 1..Len(buf) |->
               IF Utf8Starts(buf, i) THEN Utf8DecodeFrom(buf, i).units ELSE << >>],
            1, Len(buf))

(***************************************************************************)
(* Buffer.from(str, "utf8"): UTF-8 encoding of UTF-16 code units; a lone   *)
(* surrogate is encoded as U+FFFD.                                         *)
(***************************************************************************)
IsHighSurr(u) == u >= 55296 /\ u <= 56319

IsLowSurr(u) == u >= 56320 /\ u <= 57343

Utf8Bytes(cp) ==
  IF cp < 128 THEN << cp >>
  ELSE IF cp < 2048 THEN << 192 + (cp \div 64), 128 + (cp % 64) >>
  ELSE IF cp < 65536
       THEN << 224 + (cp \div 4096), 128 + ((cp \div 64) % 64), 128 + (cp % 64) >>
  ELSE << 240 + (cp \div 262144), 128 + ((cp \div 4096) % 64),
          128 + ((cp \div 64) % 64), 128 + (cp % 64) >>

\* the bytes of the code unit at i: a low surrogate after a high one was
\* encoded with it
Utf8EncodeFrom(s, i) ==
  LET u == s[i]
  IN  IF IsLowSurr(u) /\ i > 1 /\ IsHighSurr(s[i - 1]) THEN << >>
      ELSE IF IsHighSurr(u) /\ i < Len(s) /\ IsLowSurr(s[i + 1])
           THEN Utf8Bytes(65536 + (u - 55296) * 1024 + (s[i + 1] - 56320))
      ELSE IF IsHighSurr(u) \/ IsLowSurr(u) THEN Utf8Bytes(65533)
      ELSE Utf8Bytes(u)

BufferFromUtf8(str) ==
  JoinParts([i \in 1..Len(str) |-> Utf8EncodeFrom(str, i)], 1, Len(str))

(***************************************************************************)
(* JavaScript string and RegExp primitives used by the source.             *)
(***************************************************************************)
\* the RegExp class \s (ECMAScript WhiteSpace and LineTerminator)
IsSpace(u) == \/ u \in {9, 10, 11, 12, 13, 32, 160, 5760, 8232, 8233, 8239, 8287, 12288, 65279}
              \/ (u >= 8192 /\ u <= 8202)

\* what the RegExp atom . refuses to match
IsLineTerminator(u) == u \in {10, 13, 8232, 8233}

\* ASCII upper-casing, as String.prototype.toUpperCase and the i flag do on letters
UpperChar(u) == IF u >= 97 /\ u <= 122 THEN u - 32 ELSE u

toUpperCase(s) == [i \in 1..Len(s) |-> UpperChar(s[i])]

\* s.startsWith(t)
startsWith(s, t) == HasAt(s, t, 1)

IsCrLf(u) == u = 13 \/ u = 10

\* membership in the character class named cls: "crlf" is [\r\n], "space" is \s
InClass(u, cls) == IF cls = "crlf" THEN IsCrLf(u) ELSE IsSpace(u)

\* a replacement that removes one matching unit from the end, not the run
StripTrailingOne(s, cls) ==
  IF s # << >> /\ InClass(s[Len(s)], cls) THEN Slice(s, 1, Len(s) - 1) ELSE s

\* s.replace(/<cls>+$/, ""): the run of matching units that ends the string is removed
RECURSIVE StripTrailing(_, _)
StripTrailing(s, cls) ==
  IF s # << >> /\ InClass(s[Len(s)], cls)
  THEN StripTrailing(Slice(s, 1, Len(s) - 1), cls) ELSE s

RECURSIVE StripLeading(_, _)
StripLeading(s, cls) ==
  IF s # << >> /\ InClass(s[1], cls) THEN StripLeading(Drop(s, 1), cls) ELSE s

\* String.prototype.trim
trim(s) == StripLeading(StripTrailing(s, "space"), "space")

\* a global replace scans from the left and resumes after each match: the
\* pattern matches at i when it occurs there and no match that began before i
\* reaches i
RECURSIVE MatchAt(_, _, _)
MatchAt(s, pat, i) ==
  /\ HasAt(s, pat, i)
  /\ \A j \in (i - Len(pat) + 1)..(i - 1) : ~MatchAt(s, pat, j)

\* what position i of s contributes to s.replace(/pat/g, rep), the matches
\* being found in key (s itself, or s with its case folded)
ReplaceAllFrom(s, key, pat, rep, i) ==
  IF MatchAt(key, pat, i) THEN rep
  ELSE IF \E j \in (i - Len(pat) + 1)..(i - 1) : MatchAt(key, pat, j) THEN << >>
  ELSE << s[i] >>

\* s.replace(/pat/g, rep) for a literal pattern pat: leftmost, non-overlapping
ReplaceAll(s, pat, rep) ==
  JoinParts([i \in 1..Len(s) |-> ReplaceAllFrom(s, s, pat, rep, i)], 1, Len(s))

\* the same with the i flag (the patterns of the source are lower case)
ReplaceAllNoCase(s, pat, rep) ==
  JoinParts([i \in 1..Len(s) |->
               ReplaceAllFrom(s, toUpperCase(s), toUpperCase(pat), rep, i)], 1, Len(s))

(***************************************************************************)
(* Base64, as Buffer implements it.                                        *)
(***************************************************************************)
\* the character of a 6-bit value
B64Char(v) == IF v < 26 THEN 65 + v
              ELSE IF v < 52 THEN 97 + (v - 26)
              ELSE IF v < 62 THEN 48 + (v - 52)
              ELSE IF v = 62 THEN 43 ELSE 47

\* unbase64: the 6-bit value of a character, -1 for a character outside the
\* alphabet; the decoder also takes the URL-safe - and _
B64Val(c) == IF c >= 65 /\ c <= 90 THEN c - 65
             ELSE IF c >= 97 /\ c <= 122 THEN c - 97 + 26
             ELSE IF c >= 48 /\ c <= 57 THEN c - 48 + 52
             ELSE IF c = 43 \/ c = 45 THEN 62
             ELSE IF c = 47 \/ c = 95 THEN 63
             ELSE -1

\* buf.toString("base64") and digest("base64"): standard alphabet, = padding
\* the four characters of the group of bytes that starts at i
Base64EncodeFrom(b, i) ==
  LET left == Len(b) - i + 1
  IN  IF left = 1
      THEN << B64Char(b[i] \div 4), B64Char((b[i] % 4) * 16), 61, 61 >>
      ELSE IF left = 2
           THEN << B64Char(b[i] \div 4),
                   B64Char((b[i] % 4) * 16 + (b[i + 1] \div 16)),
                   B64Char((b[i + 1] % 16) * 4), 61 >>
      ELSE << B64Char(b[i] \div 4),
              B64Char((b[i] % 4) * 16 + (b[i + 1] \div 16)),
              B64Char((b[i + 1] % 16) * 4 + (b[i + 2] \div 64)),
              B64Char(b[i + 2] % 64) >>

toStringBase64(buf) ==
  JoinParts([g \in 1..((Len(buf) + 2) \div 3) |-> Base64EncodeFrom(buf, 3 * g - 2)],
            1, (Len(buf) + 2) \div 3)

\* the 6-bit values the decoder reads: characters outside the alphabet are
\* skipped, the first = ends the input
B64Legal(s) ==
  JoinParts([i \in 1..Len(s) |->
               IF B64Val(s[i]) >= 0 /\ \A j \in 1..i : s[j] # 61
               THEN << B64Val(s[i]) >> ELSE << >>],
            1, Len(s))

\* the bytes of the group of values that starts at i
B64Groups(v, i) ==
  LET left == Len(v) - i + 1
  IN  IF left <= 1 THEN << >>
      ELSE IF left = 2 THEN << v[i] * 4 + (v[i + 1] \div 16) >>
      ELSE IF left = 3
           THEN << v[i] * 4 + (v[i + 1] \div 16),
                   (v[i + 1] % 16) * 16 + (v[i + 2] \div 4) >>
      ELSE << v[i] * 4 + (v[i + 1] \div 16),
              (v[i + 1] % 16) * 16 + (v[i + 2] \div 4),
              (v[i + 2] % 4) * 64 + v[i + 3] >>

B64Decode(v) ==
  JoinParts([g \in 1..((Len(v) + 3) \div 4) |-> B64Groups(v, 4 * g - 3)],
            1, (Len(v) + 3) \div 4)

\* Buffer.from(str, "base64"): never throws, whatever the string holds
BufferFromBase64(str) == B64Decode(B64Legal(str))

(***************************************************************************)
(* crypto.createHmac("sha256", key).update(buf).digest().                  *)
(* The library primitive is taken as collision free: the 32-byte digest    *)
(* is an injective code of (key, message) for the keys and the messages of *)
(* at most HashCap bytes that the model draws.                             *)
(***************************************************************************)
DigestLen == 32

HashCap == DigestLen - 2

Zeros(n) == [i \in 1..n |-> 0]

HmacSha256(key, msg) ==
  << key[1], Len(msg) >> \o msg \o Zeros(HashCap - Len(msg))

(***************************************************************************)
(* header.match(/^HMAC\s+(.+)$/i): the captured group, when the header     *)
(* matches.  \s+ is greedy and backtracks, (.+) takes no line terminator.  *)
(***************************************************************************)
HmacPrefix == << 72, 77, 65, 67 >>

\* the positions at which \s+ may end
HeaderSplits(h) ==
  { j \in 5..(Len(h) - 1) :
      /\ \A i \in 5..j : IsSpace(h[i])
      /\ \A i \in (j + 1)..Len(h) : ~IsLineTerminator(h[i]) }

Max(S) == CHOOSE x \in S : \A y \in S : y <= x

HeaderMatch(h) ==
  IF Len(h) >= 4 /\ toUpperCase(Slice(h, 1, 4)) = HmacPrefix /\ HeaderSplits(h) # {}
  THEN [matched |-> TRUE, group |-> Drop(h, Max(HeaderSplits(h)))]
  ELSE [matched |-> FALSE, group |-> << >>]

(***************************************************************************)
(* JSON.parse and JSON.stringify.                                          *)
(* A value is [t, v]: "num" (v the digits as printed), "str" (v the code   *)
(* units), "lit" (v the text of true, false or null), "arr" (v the         *)
(* elements) and "obj" (v the <<key, value>> members in property order).   *)
(* Numbers are integers and strings hold no escape: the bodies the model   *)
(* draws contain no backslash, fraction or exponent.                       *)
(***************************************************************************)
At(s, i) == IF i >= 1 /\ i <= Len(s) THEN s[i] ELSE -1

IsDigit(c) == c >= 48 /\ c <= 57

IsJsonWs(c) == c \in {32, 9, 10, 13}

RECURSIVE SkipWs(_, _)
SkipWs(s, i) == IF IsJsonWs(At(s, i)) THEN SkipWs(s, i + 1) ELSE i

JsonFail == [ok |-> FALSE, val |-> [t |-> "none", v |-> << >>], pos |-> 0]

JsonOk(val, pos) == [ok |-> TRUE, val |-> val, pos |-> pos]

\* the end of the run of digits that starts at i
RECURSIVE DigitsEnd(_, _)
DigitsEnd(s, i) == IF IsDigit(At(s, i)) THEN DigitsEnd(s, i + 1) ELSE i

\* -? ( 0 | [1-9][0-9]* ); Number prints -0 as 0
ParseNumber(s, i) ==
  LET d == IF At(s, i) = 45 THEN i + 1 ELSE i
      e == IF At(s, d) = 48 THEN d + 1 ELSE DigitsEnd(s, d)
  IN  IF e = d THEN JsonFail
      ELSE IF Slice(s, i, e - 1) = << 45, 48 >>
           THEN JsonOk([t |-> "num", v |-> << 48 >>], e)
      ELSE JsonOk([t |-> "num", v |-> Slice(s, i, e - 1)], e)

\* the closing quote of the string whose first character is at i (0: none)
\* the scan stops at the first quote, control character or backslash
StringEnd(s, i) ==
  LET stops == { j \in i..Len(s) : s[j] = 34 \/ s[j] < 32 \/ s[j] = 92 }
  IN  IF stops = {} THEN 0
      ELSE IF s[Min(stops)] = 34 THEN Min(stops) ELSE 0

\* s[i] is the opening quote
ParseString(s, i) ==
  LET e == StringEnd(s, i + 1)
  IN  IF e = 0 THEN JsonFail
      ELSE JsonOk([t |-> "str", v |-> Slice(s, i + 1, e - 1)], e + 1)

ParseLiteral(s, i) ==
  LET lits == { << 116, 114, 117, 101 >>, << 102, 97, 108, 115, 101 >>,
                << 110, 117, 108, 108 >> }
      hit == { l \in lits : HasAt(s, l, i) }
  IN  IF hit = {} THEN JsonFail
      ELSE LET l == CHOOSE x \in hit : TRUE
           IN  JsonOk([t |-> "lit", v |-> l], i + Len(l))

\* obj[key] = val: a repeated key keeps its place and takes the later value
SetKey(members, key, val) ==
  IF \E i \in 1..Len(members) : members[i][1] = key
  THEN [i \in 1..Len(members) |->
          IF members[i][1] = key THEN << key, val >> ELSE members[i]]
  ELSE Append(members, << key, val >>)

RECURSIVE ParseValue(_, _), ParseMembers(_, _, _), ParseElements(_, _, _)
\* the value that starts at i (white space before it is the caller's)
ParseValue(s, i) ==
  LET c == At(s, i)
  IN  IF c = 123
      THEN IF At(s, SkipWs(s, i + 1)) = 125
           THEN JsonOk([t |-> "obj", v |-> << >>], SkipWs(s, i + 1) + 1)
           ELSE ParseMembers(s, SkipWs(s, i + 1), << >>)
      ELSE IF c = 91
      THEN IF At(s, SkipWs(s, i + 1)) = 93
           THEN JsonOk([t |-> "arr", v |-> << >>], SkipWs(s, i + 1) + 1)
           ELSE ParseElements(s, SkipWs(s, i + 1), << >>)
      ELSE IF c = 34 THEN ParseString(s, i)
      ELSE IF c = 45 \/ IsDigit(c) THEN ParseNumber(s, i)
      ELSE ParseLiteral(s, i)

\* "key" : value, then a comma and the next member, or the closing brace
ParseMembers(s, i, acc) ==
  IF At(s, i) # 34 THEN JsonFail
  ELSE LET key == ParseString(s, i)
       IN  IF ~key.ok THEN JsonFail
           ELSE LET colon == SkipWs(s, key.pos)
                IN  IF At(s, colon) # 58 THEN JsonFail
                    ELSE LET val == ParseValue(s, SkipWs(s, colon + 1))
                         IN  IF ~val.ok THEN JsonFail
                             ELSE LET next == SkipWs(s, val.pos)
                                      sofar == SetKey(acc, key.val.v, val.val)
                                  IN  IF At(s, next) = 44
                                      THEN ParseMembers(s, SkipWs(s, next + 1), sofar)
                                      ELSE IF At(s, next) = 125
                                      THEN JsonOk([t |-> "obj", v |-> sofar], next + 1)
                                      ELSE JsonFail

ParseElements(s, i, acc) ==
  LET val == ParseValue(s, i)
  IN  IF ~val.ok THEN JsonFail
      ELSE LET next == SkipWs(s, val.pos)
           IN  IF At(s, next) = 44
               THEN ParseElements(s, SkipWs(s, next + 1), Append(acc, val.val))
               ELSE IF At(s, next) = 93
               THEN JsonOk([t |-> "arr", v |-> Append(acc, val.val)], next + 1)
               ELSE JsonFail

\* JSON.parse(text): [ok, val]; ok is FALSE where JSON.parse throws SyntaxError
JSONparse(text) ==
  LET r == ParseValue(text, SkipWs(text, 1))
  IN  IF r.ok /\ SkipWs(text, r.pos) = Len(text) + 1
      THEN [ok |-> TRUE, val |-> r.val]
      ELSE [ok |-> FALSE, val |-> JsonFail.val]

\* a canonical array index: such keys are enumerated first, in numeric order
IsIndexKey(k) ==
  /\ k # << >>
  /\ Len(k) <= 9
  /\ \A i \in 1..Len(k) : IsDigit(k[i])
  /\ (k[1] = 48 => Len(k) = 1)

RECURSIVE NumOf(_)
NumOf(k) == IF k = << >> THEN 0
            ELSE 10 * NumOf(Slice(k, 1, Len(k) - 1)) + (k[Len(k)] - 48)

RECURSIVE IndexMembers(_, _)
IndexMembers(members, left) ==
  IF left = {} THEN << >>
  ELSE LET i == CHOOSE x \in left :
                  \A y \in left : NumOf(members[x][1]) <= NumOf(members[y][1])
       IN  << members[i] >> \o IndexMembers(members, left \ {i})

\* the members in the order JSON.stringify visits them
PropertyOrder(members) ==
  IndexMembers(members, { i \in 1..Len(members) : IsIndexKey(members[i][1]) })
  \o SelectSeq(members, LAMBDA m : ~IsIndexKey(m[1]))

Quote(str) == << 34 >> \o str \o << 34 >>

RECURSIVE JSONstringify(_), JoinMembers(_, _), JoinElements(_, _)
JSONstringify(val) ==
  IF val.t = "obj" THEN << 123 >> \o JoinMembers(PropertyOrder(val.v), 1) \o << 125 >>
  ELSE IF val.t = "arr" THEN << 91 >> \o JoinElements(val.v, 1) \o << 93 >>
  ELSE IF val.t = "str" THEN Quote(val.v)
  ELSE val.v

JoinMembers(members, i) ==
  IF i > Len(members) THEN << >>
  ELSE (IF i > 1 THEN << 44 >> ELSE << >>)
       \o Quote(members[i][1]) \o << 58 >> \o JSONstringify(members[i][2])
       \o JoinMembers(members, i + 1)

JoinElements(elems, i) ==
  IF i > Len(elems) THEN << >>
  ELSE (IF i > 1 THEN << 44 >> ELSE << >>)
       \o JSONstringify(elems[i]) \o JoinElements(elems, i + 1)

(***************************************************************************)
(* src/server.js: the verification engine.                                 *)
(* req.body is a Buffer, or the empty object {} that express leaves when   *)
(* the request carries no body to read: [isBuffer, bytes].                 *)
(***************************************************************************)
Buf(bytes) == [isBuffer |-> TRUE, bytes |-> bytes]

EmptyObject == [isBuffer |-> FALSE, bytes |-> << >>]

\* "[object Object]", what Object.prototype.toString returns for {}
ObjectObject == << 91, 111, 98, 106, 101, 99, 116, 32, 79, 98, 106, 101, 99, 116, 93 >>

\* rawBuffer.toString("utf8") and rawBuffer.toString("base64")
BodyString(raw) == IF raw.isBuffer THEN toStringUtf8(raw.bytes) ELSE ObjectObject

BodyBase64(raw) == IF raw.isBuffer THEN toStringBase64(raw.bytes) ELSE ObjectObject

\* rawBuffer.length >= 3 && rawBuffer[0] === 0xEF && rawBuffer[1] === 0xBB && rawBuffer[2] === 0xBF
HasBom(raw) == raw.isBuffer /\ HasAt(raw.bytes, << 239, 187, 191 >>, 1)

Variant(name, buffer) == [name |-> name, buffer |-> buffer]

\* a variant pushed only under a condition
PushIf(cond, name, buffer) == IF cond THEN << Variant(name, buffer) >> ELSE << >>

\* generateVariants, up to the removal of duplicates: the variants in push order
PushedVariants(rawBuffer) ==
  LET asStr == BodyString(rawBuffer)
      trimmedStr == StripTrailing(asStr, "crlf")
      normalizedLF == ReplaceAll(asStr, << 13, 10 >>, << 10 >>)
      parsed == JSONparse(asStr)
      stable == JSONstringify(parsed.val)
      trimmedSpace == StripTrailing(asStr, "space")
      crOnly == ReplaceAll(asStr, << 13, 10 >>, << 13 >>)
  IN  << Variant("exact", rawBuffer) >>
      \o PushIf(trimmedStr # asStr, "trim-trailing-crlf", Buf(BufferFromUtf8(trimmedStr)))
      \o PushIf(normalizedLF # asStr, "normalize-crlf->lf", Buf(BufferFromUtf8(normalizedLF)))
      \o PushIf(HasBom(rawBuffer), "remove-bom", Buf(Drop(rawBuffer.bytes, 3)))
      \o PushIf(parsed.ok /\ stable # asStr, "json-stringified", Buf(BufferFromUtf8(stable)))
      \o PushIf(trimmedSpace # asStr, "trim-trailing-space", Buf(BufferFromUtf8(trimmedSpace)))
      \o PushIf(crOnly # asStr, "normalize-crlf->cr", Buf(BufferFromUtf8(crOnly)))

\* a loop that keeps every variant pushed, seen before or not
UniqueNoDedup(variants, i, seen) == Drop(variants, i - 1)

\* the loop over variants with the Set of base64 keys seen so far
RECURSIVE UniqueFrom(_, _, _)
UniqueFrom(variants, i, seen) ==
  IF i > Len(variants) THEN << >>
  ELSE LET key == BodyBase64(variants[i].buffer)
       IN  IF key \notin seen
           THEN << variants[i] >> \o UniqueFrom(variants, i + 1, seen \cup {key})
           ELSE UniqueFrom(variants, i + 1, seen)

generateVariants(rawBuffer) == UniqueFrom(PushedVariants(rawBuffer), 1, {})

\* a comparison of the lengths alone
safeEqualLengthOnly(bufA, bufB) == Len(bufA) = Len(bufB)

\* safeEqual(bufA, bufB) on two Buffers: equal length, then timingSafeEqual
safeEqual(bufA, bufB) ==
  /\ Len(bufA) = Len(bufB)
  /\ \A i \in 1..Len(bufA) : bufA[i] = bufB[i]

\* the header tests of verifyAcrossVariants: FALSE where it returns { ok: false }
\* before receivedBuffer is decoded
HeaderAccepted(header) == header # << >> /\ HeaderMatch(header).matched

\* Buffer.from(match[1].trim(), "base64")
DecodeHeader(header) == BufferFromBase64(trim(HeaderMatch(header).group))

(***************************************************************************)
(* Bounds of the model.                                                    *)
(***************************************************************************)
\* longest request body drawn over BodyAlphabet
MaxBodyLen == 3

\* CR, LF, space, the digit 1 and the three bytes of the UTF-8 byte order mark
BodyAlphabet == { 13, 10, 32, 49, 239, 187, 191 }

\* {"text":"hi"} and the same document with white space inside and CR LF after it
BodyHi == << 123, 34, 116, 101, 120, 116, 34, 58, 34, 104, 105, 34, 125 >>

BodyHiSpaced == << 123, 32, 34, 116, 101, 120, 116, 34, 58, 32, 34, 104, 105, 34, 125, 13, 10 >>

\* {"text":5}
BodyTextFive == << 123, 34, 116, 101, 120, 116, 34, 58, 53, 125 >>

Bodies ==
  { Buf(b) : b \in SeqsUpTo(BodyAlphabet, MaxBodyLen) \cup { BodyHi, BodyHiSpaced, BodyTextFive } }
  \cup { EmptyObject }

\* the secret of the deployment, "k"; the empty string stands for an unset variable
SecretK == << 107 >>

Environments == { << >>, SecretK }

(***************************************************************************)
(* The sender (generate-hmac.js): "HMAC " + base64(HMAC-SHA256(body)).     *)
(* What the sender signs is the body as sent or one of the forms a sender  *)
(* may derive from it, computed here on the bytes.                         *)
(***************************************************************************)
SignatureOf(secret, bytes) == toStringBase64(HmacSha256(secret, bytes))

HmacHeader(secret, bytes) == << 72, 77, 65, 67, 32 >> \o SignatureOf(secret, bytes)

\* the bytes without the run of CR and LF bytes that ends them
RECURSIVE TrimCrLfBytes(_)
TrimCrLfBytes(b) ==
  IF b # << >> /\ b[Len(b)] \in {13, 10} THEN TrimCrLfBytes(Slice(b, 1, Len(b) - 1)) ELSE b

\* the bytes without the run of ASCII white space that ends them
RECURSIVE TrimSpaceBytes(_)
TrimSpaceBytes(b) ==
  IF b # << >> /\ b[Len(b)] \in {9, 10, 11, 12, 13, 32}
  THEN TrimSpaceBytes(Slice(b, 1, Len(b) - 1)) ELSE b

SignedForms(raw) ==
  IF ~raw.isBuffer THEN { ObjectObject }
  ELSE { raw.bytes,
         TrimCrLfBytes(raw.bytes),
         TrimSpaceBytes(raw.bytes),
         ReplaceAll(raw.bytes, << 13, 10 >>, << 10 >>),
         ReplaceAll(raw.bytes, << 13, 10 >>, << 13 >>),
         IF HasBom(raw) THEN Drop(raw.bytes, 3) ELSE raw.bytes,
         << 120 >> }

\* "HMAC  ", "HMAC not-base64!!" and "Bearer x"
HeaderBlank == << 72, 77, 65, 67, 32, 32 >>

HeaderNotBase64 == << 72, 77, 65, 67, 32, 110, 111, 116, 45, 98, 97, 115, 101, 54, 52, 33, 33 >>

HeaderBearer == << 66, 101, 97, 114, 101, 114, 32, 120 >>

\* req.headers["authorization"]: absent, or a string
Absent == [present |-> FALSE, chars |-> << >>]

Str(chars) == [present |-> TRUE, chars |-> chars]

\* the sender's header with the scheme in lower case and a tab after it
LowerTabHeader(secret, bytes) == << 104, 109, 97, 99, 9 >> \o SignatureOf(secret, bytes)

Authorizations(secret, raw) ==
  { Absent, Str(<< >>), Str(HeaderBlank), Str(HeaderNotBase64), Str(HeaderBearer),
    Str(LowerTabHeader(secret, IF raw.isBuffer THEN raw.bytes ELSE ObjectObject)) }
  \cup { Str(HmacHeader(secret, m)) : m \in SignedForms(raw) }

(***************************************************************************)
(* State.                                                                  *)
(***************************************************************************)
VARIABLES
  app,             \* the server file that runs: "server", "production", "plain"
  env,             \* process.env.TEAMS_SHARED_SECRET
  phase,           \* "start", "listening", "exited"
  SHARED_SECRET,   \* the secret the module keeps (SECRET_KEY in production)
  rawBuffer,       \* req.body of the request in progress
  authorization,   \* req.headers["authorization"] of the request in progress
  pc,              \* "idle", "verify", "loop", "respond", "done"
  receivedBuffer,  \* the decoded claim
  candidates,      \* what generateVariants returned
  generated,       \* generateVariants has been called for this request
  idx,             \* the candidate the loop is at
  hashed,          \* names of the candidates whose HMAC has been computed
  result,          \* what verification returned: [ok, variant, threw]
  status,          \* HTTP status of the response, 0 before it is sent
  tampered         \* the request is an accepted request with one bit inverted

vars == << app, env, phase, SHARED_SECRET, rawBuffer, authorization, pc,
           receivedBuffer, candidates, generated, idx, hashed, result, status, tampered >>

NoResult == [ok |-> FALSE, variant |-> "", threw |-> FALSE]

\* no request in progress
ClearRequest ==
  /\ receivedBuffer' = << >>
  /\ candidates' = << >>
  /\ generated' = FALSE
  /\ idx' = 0
  /\ hashed' = << >>
  /\ result' = NoResult
  /\ status' = 0

InitApp(a, envs) ==
  /\ app = a
  /\ env \in envs
  /\ phase = "start"
  /\ SHARED_SECRET = << >>
  /\ rawBuffer = Buf(<< >>)
  /\ authorization = Absent
  /\ pc = "idle"
  /\ receivedBuffer = << >>
  /\ candidates = << >>
  /\ generated = FALSE
  /\ idx = 0
  /\ hashed = << >>
  /\ result = NoResult
  /\ status = 0
  /\ tampered = FALSE

Init == InitApp("server", Environments)

(***************************************************************************)
(* src/server.js, lines 13-17 and 184-185: start-up.                       *)
(***************************************************************************)
Startup ==
  /\ app = "server"
  /\ phase = "start"
  /\ IF env = << >>
     THEN phase' = "exited" /\ UNCHANGED SHARED_SECRET
     ELSE phase' = "listening" /\ SHARED_SECRET' = env
  /\ UNCHANGED << app, env, rawBuffer, authorization, pc, receivedBuffer,
                  candidates, generated, idx, hashed, result, status, tampered >>

\* a POST /teams arrives while no request is in progress
ReceiveFrom(bodies) ==
  /\ app = "server"
  /\ phase = "listening"
  /\ pc = "idle"
  /\ \E raw \in bodies : \E auth \in Authorizations(SHARED_SECRET, raw) :
       /\ rawBuffer' = raw
       /\ authorization' = auth
  /\ pc' = "verify"
  /\ tampered' = FALSE
  /\ ClearRequest
  /\ UNCHANGED << app, env, phase, SHARED_SECRET >>

Receive == ReceiveFrom(Bodies)

\* an accepted request comes again with one bit of its body, or one bit of
\* the signature in its header, inverted
ReceiveTampered ==
  /\ app = "server"
  /\ pc = "done"
  /\ result.ok
  /\ ~tampered
  /\ \/ \E i \in 1..Len(rawBuffer.bytes) : \E k \in 0..7 :
          /\ rawBuffer' = Buf(FlipAt(rawBuffer.bytes, i, k))
          /\ UNCHANGED authorization
     \/ \E i \in 6..Len(authorization.chars) : \E k \in 0..7 :
          /\ authorization' = Str(FlipAt(authorization.chars, i, k))
          /\ UNCHANGED rawBuffer
  /\ pc' = "verify"
  /\ tampered' = TRUE
  /\ ClearRequest
  /\ UNCHANGED << app, env, phase, SHARED_SECRET >>

\* const header = req.headers["authorization"] || ""
HeaderOf(auth) == IF auth.present THEN auth.chars ELSE << >>

\* verifyAcrossVariants, lines 120-133: the header tests, the decoding of the
\* claim and the call of generateVariants
VerifyEnter ==
  /\ pc = "verify"
  /\ LET header == HeaderOf(authorization)
     IN  IF ~HeaderAccepted(header)
         THEN /\ result' = NoResult
              /\ pc' = "respond"
              /\ UNCHANGED << receivedBuffer, candidates, generated, idx >>
         ELSE /\ receivedBuffer' = DecodeHeader(header)
              /\ candidates' = generateVariants(rawBuffer)
              /\ generated' = TRUE
              /\ idx' = 1
              /\ pc' = "loop"
              /\ UNCHANGED result
  /\ UNCHANGED << app, env, phase, SHARED_SECRET, rawBuffer, authorization, hashed,
                  status, tampered >>

\* an HMAC of the body read as text and encoded again
computeHmacText(buffer) ==
  HmacSha256(SHARED_SECRET, BufferFromUtf8(toStringUtf8(buffer.bytes)))

\* computeHmacBuffer(v.buffer); hmac.update throws TypeError on a value that
\* is no Buffer
computeHmacBuffer(buffer) == HmacSha256(SHARED_SECRET, buffer.bytes)

\* one turn of the loop, lines 135-140
HashStep ==
  /\ pc = "loop"
  /\ idx <= Len(candidates)
  /\ LET v == candidates[idx]
     IN  IF ~v.buffer.isBuffer
         THEN /\ result' = [ok |-> FALSE, variant |-> "", threw |-> TRUE]
              /\ pc' = "respond"
              /\ UNCHANGED << idx, hashed >>
         ELSE LET computed == computeHmacBuffer(v.buffer)
              IN  /\ hashed' = Append(hashed, v.name)
                  /\ IF Len(computed) = Len(receivedBuffer) /\ safeEqual(computed, receivedBuffer)
                     THEN /\ result' = [ok |-> TRUE, variant |-> v.name, threw |-> FALSE]
                          /\ pc' = "respond"
                          /\ UNCHANGED idx
                     ELSE /\ idx' = idx + 1
                          /\ UNCHANGED << result, pc >>
  /\ UNCHANGED << app, env, phase, SHARED_SECRET, rawBuffer, authorization,
                  receivedBuffer, candidates, generated, status, tampered >>

\* line 141: every candidate was tried
Exhausted ==
  /\ pc = "loop"
  /\ idx > Len(candidates)
  /\ result' = NoResult
  /\ pc' = "respond"
  /\ UNCHANGED << app, env, phase, SHARED_SECRET, rawBuffer, authorization,
                  receivedBuffer, candidates, generated, idx, hashed, status, tampered >>

\* payload.text.slice(0, 200) throws when payload.text is truthy and no string
Truthy(val) ==
  IF val.t = "str" THEN val.v # << >>
  ELSE IF val.t = "num" THEN val.v # << 48 >>
  ELSE IF val.t = "lit" THEN val.v = << 116, 114, 117, 101 >>
  ELSE val.t \in {"obj", "arr"}

Undefined == [t |-> "none", v |-> << >>]

\* obj[key], undefined for a value without that property
Get(val, key) ==
  IF val.t = "obj" /\ \E i \in 1..Len(val.v) : val.v[i][1] = key
  THEN val.v[CHOOSE i \in 1..Len(val.v) : val.v[i][1] = key][2]
  ELSE Undefined

TextKey == << 116, 101, 120, 116 >>

\* the handler after verification, lines 155-181
HandlerStatus(raw, res) ==
  IF res.threw THEN 500
  ELSE IF ~res.ok THEN 401
  ELSE LET parsed == JSONparse(BodyString(raw))
           text == IF parsed.ok THEN Get(parsed.val, TextKey) ELSE [t |-> "str", v |-> BodyString(raw)]
       IN  IF Truthy(text) /\ text.t # "str" THEN 500 ELSE 200

Respond ==
  /\ app = "server"
  /\ pc = "respond"
  /\ status' = HandlerStatus(rawBuffer, result)
  /\ pc' = "done"
  /\ UNCHANGED << app, env, phase, SHARED_SECRET, rawBuffer, authorization,
                  receivedBuffer, candidates, generated, idx, hashed, result, tampered >>

\* the handler has returned: what it held for the request is gone
Complete ==
  /\ pc = "done"
  /\ pc' = "idle"
  /\ rawBuffer' = Buf(<< >>)
  /\ authorization' = Absent
  /\ tampered' = FALSE
  /\ ClearRequest
  /\ UNCHANGED << app, env, phase, SHARED_SECRET >>

Next == Startup \/ Receive \/ VerifyEnter \/ HashStep \/ Exhausted \/ Respond \/ Complete

Spec == Init /\ [][Next]_vars

(***************************************************************************)
(* The engine under replay with one bit inverted.                          *)
(***************************************************************************)
\* longest body of the requests that are replayed
MaxTamperLen == 2

TamperBodies == { Buf(b) : b \in SeqsUpTo(BodyAlphabet, MaxTamperLen) }

ReceiveOriginal == ReceiveFrom(TamperBodies)

NextTamper ==
  Startup \/ ReceiveOriginal \/ ReceiveTampered \/ VerifyEnter \/ HashStep
  \/ Exhausted \/ Respond \/ Complete

SpecTamper == Init /\ [][NextTamper]_vars

(***************************************************************************)
(* Properties of the verification engine.                                  *)
(***************************************************************************)
\* verifyAcrossVariants has returned or thrown
Returned == pc \in {"respond", "done"}

\* the bytes survive a round trip through a string: they are well-formed UTF-8
WellFormedUtf8(bytes) == BufferFromUtf8(toStringUtf8(bytes)) = bytes

EndsWithCrLf(bytes) == Len(bytes) >= 2 /\ HasAt(bytes, << 13, 10 >>, Len(bytes) - 1)

\* the header is the sender's for these bytes under the server's secret
SignedOver(bytes) == authorization = Str(HmacHeader(SHARED_SECRET, bytes))

\* C1: a body signed as sent is accepted, and the label reported is "exact":
\* whenever the header is "HMAC " + base64(HMAC-SHA256(body, secret)) for the
\* bytes of the body, verification returns ok with variant "exact".
C1_ExactAccepted ==
  (Returned /\ rawBuffer.isBuffer /\ SignedOver(rawBuffer.bytes))
    => (result.ok /\ result.variant = "exact")

\* C1 witness: a body that is not well-formed UTF-8 and has further
\* candidates, signed as sent, has been verified
C1_Witness ==
  /\ pc = "respond"
  /\ rawBuffer.isBuffer
  /\ SignedOver(rawBuffer.bytes)
  /\ ~WellFormedUtf8(rawBuffer.bytes)
  /\ Len(candidates) >= 3
  /\ result.ok

\* C7 as stated: for every body that ends with CR LF, a signature over the
\* body without the run of CR and LF bytes that ends it is accepted with the
\* label "trim-trailing-crlf".
C7_TrimmedAcceptedAnyBytes ==
  (Returned /\ rawBuffer.isBuffer /\ EndsWithCrLf(rawBuffer.bytes)
     /\ SignedOver(TrimCrLfBytes(rawBuffer.bytes)))
    => (result.ok /\ result.variant = "trim-trailing-crlf")

\* C7 amended: the same for every body that is well-formed UTF-8.
C7_TrimmedAcceptedUtf8 ==
  (Returned /\ rawBuffer.isBuffer /\ EndsWithCrLf(rawBuffer.bytes)
     /\ WellFormedUtf8(rawBuffer.bytes)
     /\ SignedOver(TrimCrLfBytes(rawBuffer.bytes)))
    => (result.ok /\ result.variant = "trim-trailing-crlf")

\* C7 witness: a body with text before its final CR LF, signed over the
\* trimmed form, has been accepted at the second candidate
C7_Witness ==
  /\ pc = "respond"
  /\ rawBuffer.isBuffer
  /\ EndsWithCrLf(rawBuffer.bytes)
  /\ WellFormedUtf8(rawBuffer.bytes)
  /\ TrimCrLfBytes(rawBuffer.bytes) # << >>
  /\ SignedOver(TrimCrLfBytes(rawBuffer.bytes))
  /\ result.ok
  /\ hashed = << "exact", "trim-trailing-crlf" >>

\* the pushes whose bytes no earlier push has
FirstPushes(pushed) ==
  { k \in 1..Len(pushed) : \A m \in 1..(k - 1) : pushed[m].buffer # pushed[k].buffer }

\* the i-th smallest element of a set of numbers
Nth(S, i) == CHOOSE x \in S : Cardinality({ y \in S : y < x }) = i - 1

\* C9: generateVariants returns between 1 and 8 candidates, the first is the
\* body as received labelled "exact", no two candidates hold the same bytes,
\* and the candidates are exactly the first push of each byte content, with its
\* label, in push order.
C9_CandidatesDeduplicated ==
  generated =>
    LET pushed == PushedVariants(rawBuffer)
        firsts == FirstPushes(pushed)
    IN  /\ Len(candidates) >= 1
        /\ Len(candidates) <= 8
        /\ candidates[1] = Variant("exact", rawBuffer)
        /\ \A i, j \in 1..Len(candidates) :
             i # j => candidates[i].buffer # candidates[j].buffer
        /\ Len(candidates) = Cardinality(firsts)
        /\ \A i \in 1..Len(candidates) : candidates[i] = pushed[Nth(firsts, i)]

\* C9 witness: two transformations gave the same bytes and one was dropped,
\* with a kept candidate pushed after the dropped one
C9_Witness ==
  /\ generated
  /\ LET pushed == PushedVariants(rawBuffer)
     IN  /\ Len(candidates) < Len(pushed)
         /\ \E k \in 1..Len(pushed) :
              /\ k \notin FirstPushes(pushed)
              /\ \E m \in FirstPushes(pushed) : m > k

\* the candidates whose digest is the decoded claim
Matching ==
  { i \in 1..Len(candidates) :
      /\ candidates[i].buffer.isBuffer
      /\ HmacSha256(SHARED_SECRET, candidates[i].buffer.bytes) = receivedBuffer }

NamesUpTo(n) == [i \in 1..n |-> candidates[i].name]

\* C10: candidates are hashed in generation order up to the first match.
\* While the loop runs every candidate before idx has been hashed and none
\* matched; verification returns ok exactly when some candidate's digest is
\* the decoded claim (both 32 bytes), then with the label of the first such
\* candidate and nothing after it hashed; it returns failure only with every
\* candidate hashed.
C10_FirstMatchWins ==
  /\ pc = "loop" =>
       /\ hashed = NamesUpTo(idx - 1)
       /\ \A i \in Matching : i >= idx
  /\ (Returned /\ generated /\ ~result.threw) =>
       /\ result.ok <=> Matching # {}
       /\ result.ok =>
            LET first == CHOOSE i \in Matching : \A j \in Matching : i <= j
            IN  /\ result.variant = candidates[first].name
                /\ hashed = NamesUpTo(first)
                /\ Len(receivedBuffer) = DigestLen
       /\ ~result.ok => hashed = NamesUpTo(Len(candidates))

\* C10 witness: the third candidate matched after two that did not, and
\* candidates after it were left
C10_Witness ==
  /\ pc = "respond"
  /\ result.ok
  /\ Len(hashed) = 3
  /\ Len(candidates) > 3

\* C2: tampering is detected: a request that is an accepted request with one
\* bit of its body or of its claimed signature inverted is never accepted.
C2_TamperingRejected == (Returned /\ tampered) => ~result.ok

\* the header has the form the specification asks for: HMAC in any case, white
\* space, and at least one character that is not white space after it
HasClaimedForm(header) ==
  /\ Len(header) >= 6
  /\ toUpperCase(Slice(header, 1, 4)) = HmacPrefix
  /\ IsSpace(header[5])
  /\ \E i \in 6..Len(header) : ~IsSpace(header[i])

\* C3: a header that is missing, empty or not of that form is rejected at
\* once: verification returns failure, no candidate is generated, none hashed.
C3_FastReject ==
  (pc \in {"loop", "respond", "done"} /\ ~HasClaimedForm(HeaderOf(authorization)))
    => (~result.ok /\ ~generated /\ hashed = << >>)

\* the text is base64: groups of four characters of the alphabet, the last
\* group ending in at most two = signs
IsBase64Text(s) ==
  /\ Len(s) % 4 = 0
  /\ \A i \in 1..Len(s) :
       \/ (B64Val(s[i]) >= 0 /\ s[i] \notin {45, 95})
       \/ (s[i] = 61 /\ i >= Len(s) - 1 /\ \A j \in i..Len(s) : s[j] = 61)

\* what follows the scheme and the white space in a header of the claimed form
ClaimText(header) == trim(Drop(header, 5))

\* C4: a header of the claimed form whose claim is not base64 is rejected
\* at once: verification returns failure before any candidate is generated
\* and without any HMAC computed.
C4_MalformedEncodingRejected ==
  (pc \in {"loop", "respond", "done"}
     /\ HasClaimedForm(HeaderOf(authorization))
     /\ ~IsBase64Text(ClaimText(HeaderOf(authorization))))
    => (~result.ok /\ ~generated /\ hashed = << >>)

\* C5: verification never raises, whatever the request holds: it returns
\* success or failure, and the request ends accepted (200) or rejected (401).
C5_NeverRaises ==
  /\ ~result.threw
  /\ status \in {0, 200, 401}

(***************************************************************************)
(* The production server (src/unnamed/part_002, lines 149-254) and the     *)
(* plain-text server (src/unnamed/part_001, lines 19-105).                 *)
(***************************************************************************)
\* the first position >= i at which t occurs in s (0: none)
IndexOf(s, t, i) ==
  LET hits == { j \in i..(Len(s) - Len(t) + 1) : HasAt(s, t, j) }
  IN  IF hits = {} THEN 0 ELSE Min(hits)

\* "<at", ">" and "</at>"
AtOpen == << 60, 97, 116 >>

AtClose == << 60, 47, 97, 116, 62 >>

\* .replace(/<at[^>]*>(.*?)<\/at>/gi, "@$1"): at a "<at" the tag runs to the
\* first ">", the name to the first "</at>" after it, with no line terminator
\* in between
toLowerCase(s) ==
  [i \in 1..Len(s) |-> IF s[i] >= 65 /\ s[i] <= 90 THEN s[i] + 32 ELSE s[i]]

\* the ">" that ends the tag opened at i, and the "</at>" that ends its name
\* (0: the pattern does not match at i)
MentionGt(s, i) ==
  IF HasAt(toLowerCase(s), AtOpen, i) THEN IndexOf(s, << 62 >>, i + 3) ELSE 0

MentionClose(s, i) ==
  LET gt == MentionGt(s, i)
      close == IF gt > 0 THEN IndexOf(toLowerCase(s), AtClose, gt + 1) ELSE 0
  IN  IF close > 0 /\ \A j \in (gt + 1)..(close - 1) : ~IsLineTerminator(s[j])
      THEN close ELSE 0

\* the scan reaches i outside every earlier mention and the pattern matches
RECURSIVE MentionAt(_, _)
MentionAt(s, i) ==
  /\ MentionClose(s, i) > 0
  /\ \A k \in 1..(i - 1) : MentionClose(s, k) + 4 >= i => ~MentionAt(s, k)

ReplaceMentionsFrom(s, i) ==
  IF MentionAt(s, i)
  THEN << 64 >> \o Slice(s, MentionGt(s, i) + 1, MentionClose(s, i) - 1)
  ELSE IF \E k \in 1..(i - 1) : MentionClose(s, k) + 4 >= i /\ MentionAt(s, k)
       THEN << >>
  ELSE << s[i] >>

ReplaceMentions(s) ==
  JoinParts([i \in 1..Len(s) |-> ReplaceMentionsFrom(s, i)], 1, Len(s))

\* .replace(/<[^>]+>/g, ""): a "<", at least one character, the first ">"
\* position i lies in a tag when a ">" follows at or after it and a "<" that
\* has at least one character before that ">" stands at or before i with no
\* ">" in between
StripTagsFrom(s, i) ==
  LET gt == IndexOf(s, << 62 >>, i)
  IN  IF /\ gt > 0
         /\ \E k \in 1..i : /\ s[k] = 60
                             /\ k + 2 <= gt
                             /\ \A j \in k..(i - 1) : s[j] # 62
      THEN << >> ELSE << s[i] >>

StripTags(s) == JoinParts([i \in 1..Len(s) |-> StripTagsFrom(s, i)], 1, Len(s))

\* .replace(/\s+/g, " ")
CollapseFrom(s, i) ==
  IF IsSpace(s[i])
  THEN IF i > 1 /\ IsSpace(s[i - 1]) THEN << >> ELSE << 32 >>
  ELSE << s[i] >>

CollapseSpace(s) == JoinParts([i \in 1..Len(s) |-> CollapseFrom(s, i)], 1, Len(s))

\* the four entities, in the order the source replaces them
Nbsp == << 38, 110, 98, 115, 112, 59 >>

Amp == << 38, 97, 109, 112, 59 >>

Lt == << 38, 108, 116, 59 >>

Gt == << 38, 103, 116, 59 >>

DecodeEntities(s) ==
  ReplaceAllNoCase(
    ReplaceAllNoCase(
      ReplaceAllNoCase(
        ReplaceAllNoCase(s, Nbsp, << 32 >>),
        Amp, << 38 >>),
      Lt, << 60 >>),
    Gt, << 62 >>)

\* htmlToPlain of the plain-text server, lines 13-31: no white space is collapsed
htmlToPlainText(html) ==
  IF html = << >> THEN << >>
  ELSE trim(StripTags(DecodeEntities(ReplaceMentions(html))))

\* a rendering that leaves the white space at the ends
htmlToPlainUntrimmed(html) ==
  IF html = << >> THEN << >>
  ELSE CollapseSpace(StripTags(DecodeEntities(ReplaceMentions(html))))

\* htmlToPlain of the production server, lines 174-185
htmlToPlain(html) ==
  IF html = << >> THEN << >>
  ELSE trim(CollapseSpace(StripTags(DecodeEntities(ReplaceMentions(html)))))

\* String(value) for a parsed JSON value
RECURSIVE ToJsString(_), JoinStrings(_, _)
ToJsString(val) ==
  IF val.t = "obj" THEN ObjectObject
  ELSE IF val.t = "arr" THEN JoinStrings(val.v, 1)
  ELSE val.v

JoinStrings(elems, i) ==
  IF i > Len(elems) THEN << >>
  ELSE (IF i > 1 THEN << 44 >> ELSE << >>)
       \o (IF elems[i].t = "lit" /\ elems[i].v = << 110, 117, 108, 108 >>
           THEN << >> ELSE ToJsString(elems[i]))
       \o JoinStrings(elems, i + 1)

BodyKey == << 98, 111, 100, 121 >>

HmacKey == << 104, 109, 97, 99 >>

TypeKey == << 116, 121, 112, 101 >>

IdKey == << 105, 100 >>

TimestampKey == << 116, 105, 109, 101, 115, 116, 97, 109, 112 >>

\* tryParseWrapper(raw): found is FALSE where it returns null
tryParseWrapper(raw) ==
  LET obj == JSONparse(raw)
  IN  IF obj.ok /\ obj.val.t \in {"obj", "arr"}
         /\ Truthy(Get(obj.val, BodyKey)) /\ Truthy(Get(obj.val, HmacKey))
      THEN [found |-> TRUE,
            bodyStr |-> ToJsString(Get(obj.val, BodyKey)),
            hmacHeader |-> ToJsString(Get(obj.val, HmacKey))]
      ELSE [found |-> FALSE, bodyStr |-> << >>, hmacHeader |-> << >>]

\* computeHmac(buf) of the production and plain-text servers
computeHmac(buf) == HmacSha256(SHARED_SECRET, buf)

\* htmlToPlain(parsed.text || "") throws on a text that is truthy and no string
TextThrows(val) == Truthy(Get(val, TextKey)) /\ Get(val, TextKey).t # "str"

\* parsed.text || ""
TextOrEmpty(val) == IF Truthy(Get(val, TextKey)) THEN Get(val, TextKey).v ELSE << >>

\* a property of an object literal: JSON.stringify leaves out an undefined one
Member(key, val) == IF val.t = "none" THEN << >> ELSE << << key, val >> >>

\* JSON.stringify({ type, id, timestamp, text: htmlToPlain(text || "") })
CanonicalActivity(parsedTeams) ==
  JSONstringify([t |-> "obj",
                 v |-> Member(TypeKey, Get(parsedTeams, TypeKey))
                       \o Member(IdKey, Get(parsedTeams, IdKey))
                       \o Member(TimestampKey, Get(parsedTeams, TimestampKey))
                       \o Member(TextKey, [t |-> "str", v |-> htmlToPlain(TextOrEmpty(parsedTeams))])])

Reply(st, ok, variant) == [status |-> st, ok |-> ok, variant |-> variant, threw |-> st = 500]

IsNull(val) == val.t = "lit" /\ val.v = << 110, 117, 108, 108 >>

\* lines 222-245: the raw attempt, then the canonical Activity
ProductionAttempts(teamsRawString, incomingBuf, parsed) ==
  IF safeEqual(computeHmac(BufferFromUtf8(teamsRawString)), incomingBuf)
  THEN IF ~parsed.ok \/ IsNull(parsed.val) \/ TextThrows(parsed.val)
       THEN Reply(500, TRUE, "raw")
       ELSE Reply(200, TRUE, "raw")
  ELSE IF parsed.ok /\ Truthy(parsed.val)
       THEN IF TextThrows(parsed.val) THEN Reply(500, FALSE, "")
            ELSE IF safeEqual(computeHmac(BufferFromUtf8(CanonicalActivity(parsed.val))),
                              incomingBuf)
                 THEN Reply(200, TRUE, "canonical")
                 ELSE Reply(401, FALSE, "")
  ELSE Reply(401, FALSE, "")

\* lines 210-220: the payload and the header are tested, the claim is decoded
ProductionChecked(teamsRawString, authHeader) ==
  IF teamsRawString = << >> THEN Reply(400, FALSE, "")
  ELSE IF authHeader = << >>
          \/ ~startsWith(toUpperCase(authHeader), << 72, 77, 65, 67, 32 >>)
       THEN Reply(401, FALSE, "")
  ELSE ProductionAttempts(teamsRawString, BufferFromBase64(trim(Drop(authHeader, 5))),
                          JSONparse(teamsRawString))

\* lines 201-208: a wrapper replaces the body and the header of the request
ProductionUnwrapped(rawText, header, wrapper) ==
  IF wrapper.found THEN ProductionChecked(wrapper.bodyStr, wrapper.hmacHeader)
  ELSE ProductionChecked(rawText, header)

\* the production handler, lines 196-250: the response and how it came about
ProductionReply(raw, auth) ==
  ProductionUnwrapped(BodyString(raw), HeaderOf(auth), tryParseWrapper(BodyString(raw)))

\* "aw==", the base64 text of the secret "k"
SecretKBase64 == << 97, 119, 61, 61 >>

\* lines 159-164 and 253-254: start-up of the production server
StartupProduction ==
  /\ app = "production"
  /\ phase = "start"
  /\ IF env = << >>
     THEN phase' = "exited" /\ UNCHANGED SHARED_SECRET
     ELSE phase' = "listening" /\ SHARED_SECRET' = BufferFromBase64(env)
  /\ UNCHANGED << app, env, rawBuffer, authorization, pc, receivedBuffer,
                  candidates, generated, idx, hashed, result, status, tampered >>

\* the request rq is answered with reply
Answered(rq, reply) ==
  /\ rawBuffer' = rq.body
  /\ authorization' = rq.auth
  /\ result' = [ok |-> reply.ok, variant |-> reply.variant, threw |-> reply.threw]
  /\ status' = reply.status

\* a POST /teams is handled by the production server
ProductionHandle(requests) ==
  /\ app = "production"
  /\ phase = "listening"
  /\ pc = "idle"
  /\ \E rq \in requests : Answered(rq, ProductionReply(rq.body, rq.auth))
  /\ pc' = "done"
  /\ UNCHANGED << app, env, phase, SHARED_SECRET, receivedBuffer, candidates,
                  generated, idx, hashed, tampered >>

(***************************************************************************)
(* The requests of the production server: Activities whose text is built   *)
(* from markup tokens, sent with the headers a sender may compute.         *)
(***************************************************************************)
MaxTokens == 3

\* "<at>", "</at>", "&nbsp;", "&amp;", "&lt;", "&gt;", " ", "  " and "a"
HtmlTokens ==
  { << 60, 97, 116, 62 >>, AtClose, Nbsp, Amp, Lt, Gt, << 32 >>, << 32, 32 >>, << 97 >> }

Flatten(ts) == JoinParts(ts, 1, Len(ts))

Texts == { Flatten(ts) : ts \in SeqsUpTo(HtmlTokens, MaxTokens) }

Shapes == {"text", "type", "id", "timestamp", "x", "wrapper"}

\* the members that precede "text" in the body sent
ShapeMembers(shape) ==
  IF shape = "type" THEN << 34 >> \o TypeKey \o << 34, 58, 34, 109, 34, 44 >>
  ELSE IF shape = "id" THEN << 34 >> \o IdKey \o << 34, 58, 49, 44 >>
  ELSE IF shape = "timestamp" THEN << 34 >> \o TimestampKey \o << 34, 58, 50, 44 >>
  ELSE IF shape = "x" THEN << 34, 120, 34, 58, 49, 44 >>
  ELSE IF shape = "wrapper"
       THEN << 34 >> \o BodyKey \o << 34, 58, 49, 44, 34 >> \o HmacKey \o << 34, 58, 49, 44 >>
  ELSE << >>

TextMember(text) == << 34 >> \o TextKey \o << 34, 58, 34 >> \o text \o << 34 >>

\* the body of an Activity as the sender writes it
ActivityBody(shape, text) == << 123 >> \o ShapeMembers(shape) \o TextMember(text) \o << 125 >>

\* the reduced object a sender signs, with the text it rendered
ReducedBody(shape, plain) ==
  << 123 >> \o (IF shape \in {"type", "id", "timestamp"} THEN ShapeMembers(shape) ELSE << >>)
  \o TextMember(plain) \o << 125 >>

\* the sender's rendering with every run of white space made one space
CollapsedText(text) == trim(CollapseSpace(htmlToPlainText(text)))

Activities ==
  { a \in [shape : Shapes, text : Texts] : Len(ActivityBody(a.shape, a.text)) <= HashCap }

ActivityHeaders(secret, a) ==
  { Absent,
    Str(HmacHeader(secret, ActivityBody(a.shape, a.text))),
    Str(HmacHeader(secret, ReducedBody(a.shape, htmlToPlainText(a.text)))),
    Str(HmacHeader(secret, ReducedBody(a.shape, CollapsedText(a.text)))) }

Request(body, auth) == [body |-> body, auth |-> auth]

\* "x", "null", {"text":1}, {"text":"\xFF"} signed as it decodes, nothing at
\* all, no body, and "x" wrapped with the header "HMAC  eA"
OtherRequests(secret) ==
  { Request(Buf(<< 120 >>), Str(HmacHeader(secret, << 120 >>))),
    Request(Buf(<< 110, 117, 108, 108 >>), Str(HmacHeader(secret, << 110, 117, 108, 108 >>))),
    Request(Buf(<< 123 >> \o << 34 >> \o TextKey \o << 34, 58, 49, 125 >>),
            Str(HmacHeader(secret, << 123 >> \o TextMember(<< >>) \o << 125 >>))),
    Request(Buf(<< 123 >> \o TextMember(<< 255 >>) \o << 125 >>),
            Str(HmacHeader(secret, << 123 >> \o TextMember(<< 239, 191, 189 >>) \o << 125 >>))),
    Request(Buf(<< >>), Absent),
    Request(EmptyObject, Str(HmacHeader(secret, << >>))),
    Request(Buf(<< 123, 34 >> \o BodyKey \o << 34, 58, 34, 120, 34, 44, 34 >> \o HmacKey
                \o << 34, 58, 34 >> \o HeaderBlank \o << 101, 65 >> \o << 34, 125 >>),
            Absent) }

ProdEnvironments == { << >>, SecretKBase64 }

InitProd == InitApp("production", ProdEnvironments)

ProductionRequest ==
  \E a \in Activities :
    ProductionHandle({ Request(Buf(ActivityBody(a.shape, a.text)), h) :
                         h \in ActivityHeaders(SHARED_SECRET, a) })

ProductionOther == ProductionHandle(OtherRequests(SHARED_SECRET))

NextProd == StartupProduction \/ ProductionRequest \/ ProductionOther \/ Complete

SpecProd == InitProd /\ [][NextProd]_vars

(***************************************************************************)
(* C6: acceptance through the canonical Activity.                          *)
(***************************************************************************)
ParsedBody == JSONparse(BodyString(rawBuffer))

IsJsonObject == rawBuffer.isBuffer /\ ParsedBody.ok /\ ParsedBody.val.t = "obj"

\* the text member where it is a string, the empty string where there is none
TextOf(val) == IF Get(val, TextKey).t = "str" THEN Get(val, TextKey).v ELSE << >>

\* the serialized object of the type, id and timestamp of val and a text
ReducedObject(val, plain) ==
  BufferFromUtf8(
    JSONstringify([t |-> "obj",
                   v |-> Member(TypeKey, Get(val, TypeKey))
                         \o Member(IdKey, Get(val, IdKey))
                         \o Member(TimestampKey, Get(val, TimestampKey))
                         \o << << TextKey, [t |-> "str", v |-> plain] >> >>]))

AcceptedCanonical == status = 200 /\ result.ok /\ result.variant = "canonical"

\* C6 as stated: a body that parses as a JSON object, signed over the reduced
\* object {type, id, timestamp, text} whose text is the body's text with
\* mentions replaced, the four entities decoded, tags stripped and the ends
\* trimmed, and whose bytes differ from that serialization, is accepted
\* through the canonical-Activity candidate.
C6_CanonicalAccepted ==
  (app = "production" /\ pc = "done" /\ IsJsonObject
     /\ LET reduced == ReducedObject(ParsedBody.val, htmlToPlainText(TextOf(ParsedBody.val)))
        IN  SignedOver(reduced) /\ rawBuffer.bytes # reduced)
    => AcceptedCanonical

IsWrapper(val) == Truthy(Get(val, BodyKey)) /\ Truthy(Get(val, HmacKey))

TextIsStringOrAbsent(val) == Get(val, TextKey).t \in {"str", "none"}

SignedOverCollapsed ==
  /\ app = "production" /\ pc = "done" /\ IsJsonObject
  /\ WellFormedUtf8(rawBuffer.bytes)
  /\ ~IsWrapper(ParsedBody.val)
  /\ TextIsStringOrAbsent(ParsedBody.val)
  /\ LET reduced == ReducedObject(ParsedBody.val, CollapsedText(TextOf(ParsedBody.val)))
     IN  SignedOver(reduced) /\ rawBuffer.bytes # reduced

\* C6, amended: in the production handler, a well-formed UTF-8 body that
\* parses as a JSON object, is no wrapper (it has no truthy body and hmac
\* members), has a text member that is a string or absent, and is signed over
\* the reduced object whose text is rendered with every run of white space
\* collapsed to one space as well, is answered 200 through the
\* canonical-Activity candidate when its bytes differ from that serialization.
C6_CollapsedCanonicalAccepted == SignedOverCollapsed => AcceptedCanonical

\* a request accepted so whose text has a run of white space inside it
C6_Witness ==
  /\ SignedOverCollapsed
  /\ AcceptedCanonical
  /\ htmlToPlainText(TextOf(ParsedBody.val)) # CollapsedText(TextOf(ParsedBody.val))

(***************************************************************************)
(* The plain-text server, and the start-up of the three servers.           *)
(***************************************************************************)
\* lines 57-79 of the plain-text server: the canonical body is signed and compared
PlainVerified(body, incomingBuf) ==
  IF IsNull(body) \/ TextThrows(body) THEN Reply(500, FALSE, "")
  ELSE IF SHARED_SECRET = << >> THEN Reply(500, FALSE, "")
  ELSE IF safeEqual(computeHmac(BufferFromUtf8(
                      JSONstringify([t |-> "obj",
                                     v |-> << << TextKey, [t |-> "str", v |-> htmlToPlainText(TextOrEmpty(body))] >> >>]))),
                    incomingBuf)
       THEN Reply(200, TRUE, "plain")
       ELSE Reply(401, FALSE, "")

\* lines 50-55: a body that is no JSON is answered 400
PlainParsed(body, incomingBuf) ==
  IF ~body.ok THEN Reply(400, FALSE, "") ELSE PlainVerified(body.val, incomingBuf)

\* lines 41-80 of the plain-text server: the response and how it came about
PlainReply(raw, auth) ==
  IF ~startsWith(HeaderOf(auth), << 72, 77, 65, 67, 32 >>) THEN Reply(401, FALSE, "")
  ELSE PlainParsed(JSONparse(BodyString(raw)), BufferFromBase64(trim(Drop(HeaderOf(auth), 5))))

\* line 10 and the listen call: the secret is read and the server listens
StartupPlain ==
  /\ app = "plain"
  /\ phase = "start"
  /\ phase' = "listening"
  /\ SHARED_SECRET' = env
  /\ UNCHANGED << app, env, rawBuffer, authorization, pc, receivedBuffer,
                  candidates, generated, idx, hashed, result, status, tampered >>

MaxPlainTokens == 2

PlainTexts == { Flatten(ts) : ts \in SeqsUpTo(HtmlTokens, MaxPlainTokens) }

\* the sender signs {"text": plain} with the secret it holds
PlainHeaders(text) ==
  { Absent,
    Str(HmacHeader(SecretK, ActivityBody("text", htmlToPlainText(text)))),
    Str(LowerTabHeader(SecretK, ActivityBody("text", htmlToPlainText(text)))) }

PlainRequests ==
  UNION { { Request(Buf(ActivityBody("text", text)), h) : h \in PlainHeaders(text) } :
            text \in PlainTexts }
  \cup { Request(Buf(<< 120 >>), Str(HmacHeader(SecretK, << 120 >>))),
         Request(Buf(<< 110, 117, 108, 108 >>), Str(HmacHeader(SecretK, << >>))),
         Request(EmptyObject, Str(HmacHeader(SecretK, << >>))) }

PlainRequest ==
  /\ app = "plain"
  /\ phase = "listening"
  /\ pc = "idle"
  /\ \E rq \in PlainRequests : Answered(rq, PlainReply(rq.body, rq.auth))
  /\ pc' = "done"
  /\ UNCHANGED << app, env, phase, SHARED_SECRET, receivedBuffer, candidates,
                  generated, idx, hashed, tampered >>

InitBoot ==
  \/ InitApp("server", Environments)
  \/ InitApp("production", ProdEnvironments)
  \/ InitApp("plain", Environments)

NextBoot ==
  \/ Startup \/ ReceiveOriginal \/ VerifyEnter \/ HashStep \/ Exhausted \/ Respond
  \/ StartupProduction \/ ProductionOther
  \/ StartupPlain \/ PlainRequest
  \/ Complete

SpecBoot == InitBoot /\ [][NextBoot]_vars

\* C8: with no secret configured the process exits at start-up and never
\* listens, so that no request is verified, or fails, for want of a secret;
\* and the secret read at start-up never changes afterwards.
C8_SecretProvisioned ==
  /\ [](env = << >> => phase # "listening")
  /\ [](pc = "done" => SHARED_SECRET # << >>)
  /\ [][phase # "start" => SHARED_SECRET' = SHARED_SECRET]_vars

(***************************************************************************)
(* The transport layer: what the handlers of src/server.js (lines 145-182) *)
(* and of the production server (lines 196-250) answer for each verdict.   *)
(***************************************************************************)
\* C11: every POST /teams receives exactly one response: 200 is sent only
\* when verification matched, a request whose verification did not match is
\* answered 401, and a request whose verification matched is answered 200.
C11_VerdictDecidesResponse ==
  /\ (pc = "done" => status # 0)
  /\ (status = 200 => result.ok)
  /\ (pc = "done" /\ ~result.ok => status = 401)
  /\ (pc = "done" /\ result.ok => status = 200)
=============================================================================
